---- MODULE Spec2Model ----
(***************************************************************************)
(* Model of the fertilizer recommendation pipeline:                        *)
(*   src/llm.py                 generate_recommendation_report             *)
(*   src/app/price_provider.py  normalize_name, live_price_provider        *)
(*                                                                         *)
(* A text (a Python str) is a sequence of pieces.  In the report pipeline  *)
(* a piece is a lexeme of the model's reply ("{", ":", "\"a\"", "1", a line *)
(* break, a run of prose); in the name normaliser a piece is one           *)
(* character.  The replies drawn never put two scalar lexemes side by      *)
(* side, so reading a reply lexeme by lexeme and reading it character by   *)
(* character agree.  Only the lexemes "{" and "}" hold a brace character.  *)
(***************************************************************************)
EXTENDS Integers, Sequences, FiniteSets, TLC

(***************************************************************************)
(* Python values.                                                          *)
(***************************************************************************)
PyNone == [t |-> "None"]
PyBool(b) == [t |-> "bool", v |-> b]
PyInt(n) == [t |-> "int", v |-> n]
\* a float, held exactly in thousandths
PyFloat(milli) == [t |-> "float", v |-> milli]
PyStr(s) == [t |-> "str", v |-> s]
PyList(q) == [t |-> "list", v |-> q]
PyDict(f) == [t |-> "dict", v |-> f]

EmptyDict == [k \in {} |-> PyNone]

IsDict(d) == d.t = "dict"
HasKey(d, k) == IsDict(d) /\ k \in DOMAIN d.v

\* Python truthiness of None and of a str
Truthy(o) == o.t # "None" /\ (o.t = "str" => Len(o.v) > 0)

\* SetItem building a fresh dict that holds the one key
SetItem_Fresh(d, k, o) == PyDict(k :> o)

\* d[k] = o on a dict: the key is added, or its value replaced.
SetItem(d, k, o) == PyDict((k :> o) @@ d.v)

\* d.get(k, default)
DictGet(d, k, default) == IF k \in DOMAIN d.v THEN d.v[k] ELSE default

(***************************************************************************)
(* json.loads on a text of lexemes.                                        *)
(***************************************************************************)
WHITESPACE == {" ", "\t", "\n", "\r"}

\* the string literals a reply may hold, with the str each denotes
StringLiteral ==
    ("\"a\"" :> "a") @@ ("\"_meta\"" :> "_meta") @@ ("\"raw\"" :> "raw")
        @@ ("\"error\"" :> "error")

\* the other scalar lexemes, with the value each denotes
ScalarLiteral ==
    ("1" :> PyInt(1)) @@ ("null" :> PyNone) @@ ("true" :> PyBool(TRUE))

ParseOk(o, i) == [ok |-> TRUE, val |-> o, next |-> i]
ParseFail(i) == [ok |-> FALSE, val |-> PyNone, next |-> i]

RECURSIVE SkipWs(_, _)
SkipWs(s, i) ==
    IF i <= Len(s) /\ s[i] \in WHITESPACE THEN SkipWs(s, i + 1) ELSE i

RECURSIVE ScanOnce(_, _)
RECURSIVE JSONMembers(_, _, _)
RECURSIVE JSONElements(_, _, _)

\* the members of an object from position i (a key is expected there)
JSONMembers(s, i, acc) ==
    IF i > Len(s) \/ s[i] \notin DOMAIN StringLiteral THEN ParseFail(i)
    ELSE LET key == StringLiteral[s[i]]
             c == SkipWs(s, i + 1)
         IN IF c > Len(s) \/ s[c] # ":" THEN ParseFail(c)
            ELSE LET r == ScanOnce(s, SkipWs(s, c + 1))
                 IN IF ~r.ok THEN ParseFail(r.next)
                    ELSE LET n == SkipWs(s, r.next)
                             acc2 == (key :> r.val) @@ acc
                         IN IF n > Len(s) THEN ParseFail(n)
                            ELSE IF s[n] = "}" THEN ParseOk(PyDict(acc2), n + 1)
                            ELSE IF s[n] = ","
                                 THEN JSONMembers(s, SkipWs(s, n + 1), acc2)
                            ELSE ParseFail(n)

\* the elements of an array from position i (a value is expected there)
JSONElements(s, i, acc) ==
    LET r == ScanOnce(s, i)
    IN IF ~r.ok THEN ParseFail(r.next)
       ELSE LET n == SkipWs(s, r.next)
                acc2 == Append(acc, r.val)
            IN IF n > Len(s) THEN ParseFail(n)
               ELSE IF s[n] = "]" THEN ParseOk(PyList(acc2), n + 1)
               ELSE IF s[n] = ","
                    THEN JSONElements(s, SkipWs(s, n + 1), acc2)
               ELSE ParseFail(n)

\* one JSON value starting at position i
ScanOnce(s, i) ==
    IF i > Len(s) THEN ParseFail(i)
    ELSE IF s[i] \in DOMAIN StringLiteral
         THEN ParseOk(PyStr(<<StringLiteral[s[i]]>>), i + 1)
    ELSE IF s[i] \in DOMAIN ScalarLiteral
         THEN ParseOk(ScalarLiteral[s[i]], i + 1)
    ELSE IF s[i] = "{"
         THEN LET j == SkipWs(s, i + 1)
              IN IF j <= Len(s) /\ s[j] = "}" THEN ParseOk(PyDict(EmptyDict), j + 1)
                 ELSE JSONMembers(s, j, EmptyDict)
    ELSE IF s[i] = "["
         THEN LET j == SkipWs(s, i + 1)
              IN IF j <= Len(s) /\ s[j] = "]" THEN ParseOk(PyList(<<>>), j + 1)
                 ELSE JSONElements(s, j, <<>>)
    ELSE ParseFail(i)

\* json.loads(s): one value, white space around it, nothing else
JsonLoads(s) ==
    LET r == ScanOnce(s, SkipWs(s, 1))
    IN IF r.ok /\ SkipWs(s, r.next) = Len(s) + 1 THEN r ELSE ParseFail(r.next)

(***************************************************************************)
(* re.search(r'\{.*\}', content, re.DOTALL)                                *)
(***************************************************************************)
NoMatch == <<>>

IndicesOf(s, c) == {i \in 1..Len(s) : s[i] = c}
Min(S) == CHOOSE m \in S : \A n \in S : m <= n
Max(S) == CHOOSE m \in S : \A n \in S : m >= n

\* RegexSearch with a lazy quantifier, r'\{.*?\}': it stops at the first "}"
RegexSearch_Lazy(s) ==
    LET opens == IndicesOf(s, "{")
    IN IF opens = {} THEN NoMatch
       ELSE LET closes == {j \in IndicesOf(s, "}") : j > Min(opens)}
            IN IF closes = {} THEN NoMatch ELSE <<Min(opens), Min(closes)>>

\* the match as <<first, last>>, or NoMatch: leftmost "{", then as far as a "}"
\* can be found, the dot matching every piece, a line break included
RegexSearch(s) ==
    LET opens == IndicesOf(s, "{")
    IN IF opens = {} THEN NoMatch
       ELSE LET closes == {j \in IndicesOf(s, "}") : j > Min(opens)}
            IN IF closes = {} THEN NoMatch ELSE <<Min(opens), Max(closes)>>

MatchGroup(s, m) == SubSeq(s, m[1], m[2])


(***************************************************************************)
(* The inputs of generate_recommendation_report and the replies of the     *)
(* generative-model service.                                               *)
(***************************************************************************)
\* bounds of the replies drawn
MaxMembers == 2
MaxPad == 1

BaseInputsSet ==
    { PyDict(EmptyDict),
      PyDict(("Sowing_Date" :> PyStr(<<"2024-06-01">>)) @@ ("Field_Size" :> PyInt(2))) }

PredictionsSet ==
    { PyDict("Primary_Fertilizer" :> PyStr(<<"Urea">>)),
      PyDict(("Primary_Fertilizer" :> PyStr(<<"DAP">>))
                 @@ ("pH_Amendment" :> PyStr(<<"None">>))) }

\* confidences away from a rounding tie (0.873)
ConfidencesSet ==
    { PyDict(EmptyDict), PyDict("Primary_Fertilizer" :> PyFloat(873)) }

\* os.getenv("GEMINI_API_KEY") after load_dotenv: unset, empty, or a key
ApiKeys == {PyNone, PyStr(<<>>), PyStr(<<"key">>)}

\* datetime.utcnow().isoformat()
Clock == {"2024-06-01T10:00:00", "2024-06-01T10:00:01"}

\* what generate_content or response.text may raise
ServiceErrors == {"503 service unavailable"}
TextErrors == {"response.text: no valid Part"}

\* the keys an object of a reply may have, in the order they are written
ReplyKeys == <<"\"a\"", "\"_meta\"", "\"raw\"", "\"error\"">>

\* the values a member may have: 1, and for the key a also an empty object
MemberValues(k) == IF k = 1 THEN {<<"1">>, <<"{", "}">>} ELSE {<<"1">>}

\* a line break when the reply is written over several lines
Nl(pretty) == IF pretty THEN <<"\n">> ELSE <<>>

RECURSIVE SubsetsUpTo(_, _)
SubsetsUpTo(S, n) ==
    IF n = 0 THEN {{}}
    ELSE LET smaller == SubsetsUpTo(S, n - 1)
         IN smaller \cup {T \cup {e} : T \in smaller, e \in S}

\* the texts of the members with keys ReplyKeys[i], i in S, from key k on
RECURSIVE MemberTexts(_, _, _, _)
MemberTexts(S, k, first, pretty) ==
    IF k > Len(ReplyKeys) THEN {<<>>}
    ELSE IF k \notin S THEN MemberTexts(S, k + 1, first, pretty)
    ELSE { (IF first THEN <<>> ELSE <<",">> \o Nl(pretty))
               \o <<ReplyKeys[k], ":">> \o val \o rest :
             val \in MemberValues(k),
             rest \in MemberTexts(S, k + 1, FALSE, pretty) }

ObjectTexts ==
    UNION { { <<"{">> \o Nl(pretty) \o m \o Nl(pretty) \o <<"}">> :
                m \in MemberTexts(S, 1, TRUE, pretty) } :
            S \in SubsetsUpTo(1..Len(ReplyKeys), MaxMembers),
            pretty \in BOOLEAN }

OtherTexts ==
    { <<>>, <<"1">>, <<"null">>, <<"true">>, <<"\"a\"">>, <<"[", "]">>,
      <<"[", "1", ",", "null", "]">>, <<"not json at all">> }

RECURSIVE SeqsUpTo(_, _)
SeqsUpTo(A, n) ==
    IF n = 0 THEN {<<>>}
    ELSE LET shorter == SeqsUpTo(A, n - 1)
         IN shorter \cup {Append(q, a) : q \in shorter, a \in A}

\* what the model may write before and after the JSON text
Before == SeqsUpTo({"Here is the result: ", "{", "}"}, MaxPad)
After == SeqsUpTo({" done", "{", "}"}, MaxPad)

\* the texts response.text may give
Contents ==
    {pre \o body \o post : pre \in Before, body \in ObjectTexts \cup OtherTexts, post \in After}

NoResponse == PyNone
Response(blocked, text) == [t |-> "response", blocked |-> blocked, text |-> text]
Responses ==
    {Response(FALSE, c) : c \in Contents} \cup {Response(TRUE, <<e>>) : e \in TextErrors}

(***************************************************************************)
(* State.                                                                  *)
(***************************************************************************)
VARIABLES
    pc,            \* where generate_recommendation_report stands
    installed,     \* google.generativeai can be imported
    api_key,       \* os.getenv("GEMINI_API_KEY")
    base_inputs, predictions, confidences,   \* the arguments
    prompt,        \* user_payload, as it goes into full_prompt
    calls,         \* calls of model.generate_content so far
    response,      \* what generate_content returned
    content,       \* response.text
    json_match,    \* the result of re.search, Unset until it runs
    data,          \* the local data
    exc,           \* the exception the outer handler caught
    outcome,       \* "running", "returned" or "raised"
    result,        \* the report returned
    raised,        \* the exception that left the call
    name, canon, price   \* normalize_name / live_price_provider: argument, results

llmVars ==
    <<pc, installed, api_key, base_inputs, predictions, confidences, prompt, calls,
      response, content, json_match, data, exc, outcome, result, raised>>
normVars == <<name, canon, price>>
vars == <<llmVars, normVars>>

Unset == [t |-> "unset"]
Match(m) == [t |-> "match", span |-> m]

(***************************************************************************)
(* src/llm.py                                                              *)
(***************************************************************************)
\* leaving the call with an exception
Raise(e) ==
    /\ outcome' = "raised"
    /\ raised' = PyStr(<<e>>)
    /\ pc' = "done"

\* line 39, _get_gemini_client (lines 9-27)
GetGeminiClient ==
    /\ pc = "get_client"
    /\ IF ~installed
       THEN Raise("RuntimeError: google-generativeai package is required")
       ELSE IF ~Truthy(api_key)
       THEN Raise("RuntimeError: GEMINI_API_KEY is not set")
       ELSE pc' = "build" /\ UNCHANGED <<outcome, raised>>
    /\ UNCHANGED <<installed, api_key, base_inputs, predictions, confidences, prompt,
                   calls, response, content, json_match, data, exc, result, normVars>>

\* round(float(c) * 100) of a confidence in thousandths, away from a tie
RoundPercent(c) ==
    LET q == c.v \div 10
        r == c.v % 10
    IN PyInt(IF r < 5 THEN q ELSE IF r > 5 THEN q + 1 ELSE IF q % 2 = 0 THEN q ELSE q + 1)

\* lines 42-46
PrimaryConfPct(cf) ==
    LET primary_conf == DictGet(cf, "Primary_Fertilizer", PyNone)
    IN IF primary_conf # PyNone THEN RoundPercent(primary_conf) ELSE PyNone

\* lines 41-153: the payload of the prompt
BuildPrompt ==
    /\ pc = "build"
    /\ prompt' = PyDict(
            ("inputs" :> base_inputs) @@ ("predictions" :> predictions)
            @@ ("primary_confidence_percent" :> PrimaryConfPct(confidences))
            @@ ("notes" :> PyList(<<DictGet(base_inputs, "Sowing_Date", PyNone),
                                    DictGet(base_inputs, "Field_Size", PyNone),
                                    DictGet(base_inputs, "Field_Unit", PyStr(<<"hectares">>))>>)))
    /\ pc' = "generate"
    /\ UNCHANGED <<installed, api_key, base_inputs, predictions, confidences, calls,
                   response, content, json_match, data, exc, outcome, result, raised,
                   normVars>>

\* OnFailure calling the service again
OnFailure_Retry == "generate"

\* where control goes when the try block of line 155 raises
OnFailure == "except"

\* lines 156-159: the one call of the service; it returns a response or raises
GenerateContent ==
    /\ pc = "generate"
    /\ calls' = calls + 1
    /\ \/ \E r \in Responses :
             /\ response' = r
             /\ pc' = "text"
             /\ exc' = exc
       \/ \E e \in ServiceErrors :
             /\ exc' = PyStr(<<e>>)
             /\ pc' = OnFailure
             /\ response' = response
    /\ UNCHANGED <<installed, api_key, base_inputs, predictions, confidences, prompt,
                   content, json_match, data, outcome, result, raised, normVars>>

\* line 161: content = response.text, which raises on a reply without text
ReadText ==
    /\ pc = "text"
    /\ IF response.blocked
       THEN /\ exc' = PyStr(response.text)
            /\ pc' = OnFailure
            /\ content' = content
       ELSE /\ content' = PyStr(response.text)
            /\ pc' = "loads"
            /\ exc' = exc
    /\ UNCHANGED <<installed, api_key, base_inputs, predictions, confidences, prompt,
                   calls, response, json_match, data, outcome, result, raised, normVars>>

\* lines 164-166: data = json.loads(content), or on to the recovery
ParseDirect ==
    /\ pc = "loads"
    /\ LET r == JsonLoads(content.v)
       IN IF r.ok
          THEN data' = r.val /\ pc' = "assemble"
          ELSE data' = data /\ pc' = "extract"
    /\ UNCHANGED <<installed, api_key, base_inputs, predictions, confidences, prompt,
                   calls, response, content, json_match, exc, outcome, result, raised,
                   normVars>>

\* lines 175 and 178: data = {"raw": content}
RawFallback(text) == PyDict("raw" :> PyStr(text))

\* ExtractJson wrapping the matched substring, not the whole text, when the
\* substring does not parse
ExtractJson_WrapsMatch ==
    /\ pc = "extract"
    /\ LET m == RegexSearch(content.v)
       IN IF m # NoMatch
          THEN /\ json_match' = Match(m)
               /\ LET r == JsonLoads(MatchGroup(content.v, m))
                  IN data' = IF r.ok THEN r.val
                             ELSE RawFallback(MatchGroup(content.v, m))
          ELSE /\ json_match' = PyNone
               /\ data' = RawFallback(content.v)
    /\ pc' = "assemble"
    /\ UNCHANGED <<installed, api_key, base_inputs, predictions, confidences, prompt,
                   calls, response, content, exc, outcome, result, raised, normVars>>

\* lines 168-178: the {...} substring, parsed, or the raw text wrapped
ExtractJson ==
    /\ pc = "extract"
    /\ LET m == RegexSearch(content.v)
       IN IF m # NoMatch
          THEN /\ json_match' = Match(m)
               /\ LET r == JsonLoads(MatchGroup(content.v, m))
                  IN data' = IF r.ok THEN r.val ELSE RawFallback(content.v)
          ELSE /\ json_match' = PyNone
               /\ data' = RawFallback(content.v)
    /\ pc' = "assemble"
    /\ UNCHANGED <<installed, api_key, base_inputs, predictions, confidences, prompt,
                   calls, response, content, exc, outcome, result, raised, normVars>>

\* line 182
ErrorData(e) ==
    PyDict("error" :> PyStr(<<"Failed to generate recommendation: ">> \o e.v))

\* HandleError returning the error object from inside the handler
HandleError_ReturnsEarly ==
    /\ pc = "except"
    /\ data' = ErrorData(exc)
    /\ result' = data'
    /\ outcome' = "returned"
    /\ pc' = "done"
    /\ UNCHANGED <<installed, api_key, base_inputs, predictions, confidences, prompt,
                   calls, response, content, json_match, exc, raised, normVars>>

\* lines 180-182: the handler of the outer try
HandleError ==
    /\ pc = "except"
    /\ data' = ErrorData(exc)
    /\ pc' = "assemble"
    /\ UNCHANGED <<installed, api_key, base_inputs, predictions, confidences, prompt,
                   calls, response, content, json_match, exc, outcome, result, raised,
                   normVars>>

\* MetaBlock with predictions and confidences exchanged
MetaBlock_Swapped(now, bi, pr, cf) ==
    PyDict(("generated_at" :> PyStr(<<now, "Z">>)) @@ ("inputs" :> bi)
               @@ ("predictions" :> cf) @@ ("confidences" :> pr))

\* lines 185-190: the value of _meta
MetaBlock(now, bi, pr, cf) ==
    PyDict(("generated_at" :> PyStr(<<now, "Z">>)) @@ ("inputs" :> bi)
               @@ ("predictions" :> pr) @@ ("confidences" :> cf))

\* lines 185-191: data["_meta"] = {...}; return data.  The item assignment
\* raises TypeError on a data that is no dict (a list takes no str index; a
\* str, a number, a bool and None take no item assignment).
Assemble ==
    /\ pc = "assemble"
    /\ IF IsDict(data)
       THEN \E now \in Clock :
              /\ data' = SetItem(data, "_meta",
                                 MetaBlock(now, base_inputs, predictions, confidences))
              /\ result' = data'
              /\ outcome' = "returned"
              /\ pc' = "done"
              /\ raised' = raised
       ELSE /\ Raise("TypeError: object does not support item assignment")
            /\ UNCHANGED <<data, result>>
    /\ UNCHANGED <<installed, api_key, base_inputs, predictions, confidences, prompt,
                   calls, response, content, json_match, exc, normVars>>

\* lines 30-32: a call of generate_recommendation_report with its arguments
Invoke ==
    /\ pc = "idle"
    /\ \E bi \in BaseInputsSet, pr \in PredictionsSet, cf \in ConfidencesSet :
          /\ base_inputs' = bi
          /\ predictions' = pr
          /\ confidences' = cf
    /\ pc' = "get_client"
    /\ UNCHANGED <<installed, api_key, prompt, calls, response, content, json_match,
                   data, exc, outcome, result, raised, normVars>>

(***************************************************************************)
(* src/app/price_provider.py.  A name is a text of characters.             *)
(***************************************************************************)
\* bounds of the names drawn
MaxFlips == 1
MaxWs == 1

UPPERCASE ==
    <<"A", "B", "C", "D", "E", "F", "G", "H", "I", "J", "K", "L", "M",
      "N", "O", "P", "Q", "R", "S", "T", "U", "V", "W", "X", "Y", "Z">>
LOWERCASE ==
    <<"a", "b", "c", "d", "e", "f", "g", "h", "i", "j", "k", "l", "m",
      "n", "o", "p", "q", "r", "s", "t", "u", "v", "w", "x", "y", "z">>

\* the characters str.strip() removes
StripChars == {" ", "\t", "\n", "\r", "\f"}

LowerChar(c) ==
    IF \E i \in 1..Len(UPPERCASE) : UPPERCASE[i] = c
    THEN LOWERCASE[CHOOSE i \in 1..Len(UPPERCASE) : UPPERCASE[i] = c]
    ELSE c

UpperChar(c) ==
    IF \E i \in 1..Len(LOWERCASE) : LOWERCASE[i] = c
    THEN UPPERCASE[CHOOSE i \in 1..Len(LOWERCASE) : LOWERCASE[i] = c]
    ELSE c

\* Lower leaving the name as it is
Lower_Missing(s) == s

\* str.lower()
Lower(s) == [i \in 1..Len(s) |-> LowerChar(s[i])]

\* str.strip()
Strip(s) ==
    LET kept == {i \in 1..Len(s) : s[i] \notin StripChars}
    IN IF kept = {} THEN <<>> ELSE SubSeq(s, Min(kept), Max(kept))

\* lines 5-16
FERT_ALIAS ==
    (<<"m", "o", "p">> :> <<"M", "O", "P">>)
    @@ (<<"m", "u", "r", "a", "t", "e", " ", "o", "f", " ", "p", "o", "t", "a", "s", "h">> :> <<"M", "O", "P">>)
    @@ (<<"m", "u", "r", "i", "a", "t", "e", " ", "o", "f", " ", "p", "o", "t", "a", "s", "h">> :> <<"M", "O", "P">>)
    @@ (<<"p", "o", "t", "a", "s", "s", "i", "u", "m", " ", "c", "h", "l", "o", "r", "i", "d", "e">> :> <<"M", "O", "P">>)
    @@ (<<"s", "o", "p">> :> <<"S", "O", "P">>)
    @@ (<<"p", "o", "t", "a", "s", "s", "i", "u", "m", " ", "s", "u", "l", "f", "a", "t", "e">> :> <<"S", "O", "P">>)
    @@ (<<"p", "o", "t", "a", "s", "s", "i", "u", "m", " ", "s", "u", "l", "p", "h", "a", "t", "e">> :> <<"S", "O", "P">>)
    @@ (<<"u", "r", "e", "a">> :> <<"U", "r", "e", "a">>)
    @@ (<<"d", "a", "p">> :> <<"D", "A", "P">>)
    @@ (<<"d", "i", "a", "m", "m", "o", "n", "i", "u", "m", " ", "p", "h", "o", "s", "p", "h", "a", "t", "e">> :> <<"D", "A", "P">>)
    @@ (<<"c", "a", "n">> :> <<"C", "a", "l", "c", "i", "u", "m", " ", "A", "m", "m", "o", "n", "i", "u", "m", " ", "N", "i", "t", "r", "a", "t", "e">>)
    @@ (<<"c", "a", "l", "c", "i", "u", "m", " ", "a", "m", "m", "o", "n", "i", "u", "m", " ", "n", "i", "t", "r", "a", "t", "e">> :> <<"C", "a", "l", "c", "i", "u", "m", " ", "A", "m", "m", "o", "n", "i", "u", "m", " ", "N", "i", "t", "r", "a", "t", "e">>)
    @@ (<<"a", "m", "m", "o", "n", "i", "u", "m", " ", "s", "u", "l", "p", "h", "a", "t", "e">> :> <<"A", "m", "m", "o", "n", "i", "u", "m", " ", "S", "u", "l", "p", "h", "a", "t", "e">>)
    @@ (<<"a", "m", "m", "o", "n", "i", "u", "m", " ", "s", "u", "l", "f", "a", "t", "e">> :> <<"A", "m", "m", "o", "n", "i", "u", "m", " ", "S", "u", "l", "p", "h", "a", "t", "e">>)
    @@ (<<"v", "e", "r", "m", "i", "c", "o", "m", "p", "o", "s", "t">> :> <<"V", "e", "r", "m", "i", "c", "o", "m", "p", "o", "s", "t">>)
    @@ (<<"n", "e", "e", "m", " ", "c", "a", "k", "e">> :> <<"N", "e", "e", "m", " ", "C", "a", "k", "e">>)
    @@ (<<"b", "o", "n", "e", " ", "m", "e", "a", "l">> :> <<"B", "o", "n", "e", " ", "M", "e", "a", "l">>)
    @@ (<<"c", "o", "m", "p", "o", "s", "t">> :> <<"C", "o", "m", "p", "o", "s", "t">>)
    @@ (<<"p", "o", "u", "l", "t", "r", "y", " ", "m", "a", "n", "u", "r", "e">> :> <<"P", "o", "u", "l", "t", "r", "y", " ", "m", "a", "n", "u", "r", "e">>)
    @@ (<<"w", "o", "o", "d", " ", "a", "s", "h">> :> <<"W", "o", "o", "d", " ", "A", "s", "h">>)
    @@ (<<"p", "s", "b">> :> <<"P", "S", "B">>)
    @@ (<<"p", "h", "o", "s", "p", "h", "a", "t", "e", " ", "s", "o", "l", "u", "b", "i", "l", "i", "z", "i", "n", "g", " ", "b", "a", "c", "t", "e", "r", "i", "a">> :> <<"P", "S", "B">>)
    @@ (<<"r", "h", "i", "z", "o", "b", "i", "u", "m">> :> <<"R", "h", "i", "z", "o", "b", "i", "u", "m">>)
    @@ (<<"a", "z", "o", "s", "p", "i", "r", "i", "l", "l", "u", "m">> :> <<"A", "z", "o", "s", "p", "i", "r", "i", "l", "l", "u", "m">>)
    @@ (<<"a", "z", "o", "t", "o", "b", "a", "c", "t", "e", "r">> :> <<"A", "z", "o", "t", "o", "b", "a", "c", "t", "e", "r">>)

\* lines 18-23
normalize_name(n) ==
    IF ~Truthy(n) THEN PyNone
    ELSE LET key == Lower(Strip(n.v))
         IN IF key \in DOMAIN FERT_ALIAS THEN PyStr(FERT_ALIAS[key])
            ELSE PyStr(Strip(n.v))

\* the names drawn: the keys and the canonical values of the table and names
\* it does not know, with the case of some letters changed and white space
\* around them; the empty name and None
AliasKeys == DOMAIN FERT_ALIAS
CanonicalNames == {FERT_ALIAS[k] : k \in AliasKeys}
UnknownNames == {<<"z", "i", "n", "c">>, <<"Z", "n", " ", "S", "O", "4">>, <<>>}

SwapCase(c) == IF LowerChar(c) # c THEN LowerChar(c) ELSE UpperChar(c)

CaseVariants(s) ==
    { [i \in 1..Len(s) |-> IF i \in F THEN SwapCase(s[i]) ELSE s[i]] :
        F \in SubsetsUpTo(1..Len(s), MaxFlips) }
    \cup { [i \in 1..Len(s) |-> UpperChar(s[i])] }

Padded(S) ==
    { l \o s \o r : l \in SeqsUpTo({" ", "\t"}, MaxWs), s \in S,
                    r \in SeqsUpTo({" ", "\n"}, MaxWs) }

Names ==
    {PyNone} \cup
    { PyStr(s) : s \in Padded(UNION {CaseVariants(b) :
                                     b \in AliasKeys \cup CanonicalNames \cup UnknownNames}) }

\* a call of normalize_name (lines 18-23) on the name drawn
CallNormalizeName ==
    /\ canon = Unset
    /\ canon' = normalize_name(name)
    /\ UNCHANGED <<name, price, llmVars>>

\* a call of live_price_provider (lines 25-39) on the name drawn, a str, for
\* any region: the name is normalised and no price is known
CallLivePriceProvider ==
    /\ canon = Unset
    /\ name # PyNone
    /\ canon' = normalize_name(name)
    /\ price' = PyNone
    /\ UNCHANGED <<name, llmVars>>

NormIdle ==
    /\ name = Unset
    /\ canon = Unset
    /\ price = Unset

Init ==
    /\ pc = "idle"
    /\ installed \in BOOLEAN
    /\ api_key \in ApiKeys
    /\ base_inputs = PyNone
    /\ predictions = PyNone
    /\ confidences = PyNone
    /\ prompt = PyNone
    /\ calls = 0
    /\ response = NoResponse
    /\ content = PyNone
    /\ json_match = Unset
    /\ data = PyNone
    /\ exc = PyNone
    /\ outcome = "running"
    /\ result = PyNone
    /\ raised = PyNone
    /\ NormIdle

Next ==
    \/ Invoke
    \/ GetGeminiClient
    \/ BuildPrompt
    \/ GenerateContent
    \/ ReadText
    \/ ParseDirect
    \/ ExtractJson
    \/ HandleError
    \/ Assemble

Spec == Init /\ [][Next]_vars

\* the name normaliser and the price lookup on their own
InitNorm ==
    /\ pc = "idle"
    /\ installed = TRUE
    /\ api_key = PyNone
    /\ base_inputs = PyNone
    /\ predictions = PyNone
    /\ confidences = PyNone
    /\ prompt = PyNone
    /\ calls = 0
    /\ response = NoResponse
    /\ content = PyNone
    /\ json_match = Unset
    /\ data = PyNone
    /\ exc = PyNone
    /\ outcome = "running"
    /\ result = PyNone
    /\ raised = PyNone
    /\ name \in Names
    /\ canon = Unset
    /\ price = Unset

NextNorm ==
    \/ CallNormalizeName
    \/ CallLivePriceProvider

SpecNorm == InitNorm /\ [][NextNorm]_vars

(***************************************************************************)
(* Properties.                                                             *)
(***************************************************************************)
Args == <<base_inputs, predictions, confidences>>

\* the reply was read and it is valid JSON
ReplyIsJson == content # PyNone /\ JsonLoads(content.v).ok
ReplyValue == JsonLoads(content.v).val

\* a "{" of the text with a "}" somewhere after it
HasBraced(s) == \E i, j \in 1..Len(s) : i < j /\ s[i] = "{" /\ s[j] = "}"

\* i is the first "{" of the text and j its last "}"
IsBracedSpan(s, i, j) ==
    /\ i < j
    /\ s[i] = "{"
    /\ s[j] = "}"
    /\ \A k \in 1..Len(s) : (k < i => s[k] # "{") /\ (k > j => s[k] # "}")

\* the text from its first "{" to its last "}"
Braced(s) ==
    LET span == CHOOSE ij \in (1..Len(s)) \X (1..Len(s)) : IsBracedSpan(s, ij[1], ij[2])
    IN SubSeq(s, span[1], span[2])

ResultExample == <<"Here is the result: ", "{", "\"a\"", ":", "1", "}", " done">>

\* C1: with GEMINI_API_KEY missing the call does not raise: it returns a
\* report with an error key and _meta, and the service was not called.
C1_MissingKeyGivesErrorReport ==
    (pc = "done" /\ installed /\ ~Truthy(api_key)) =>
        /\ outcome = "returned"
        /\ HasKey(result, "error")
        /\ HasKey(result, "_meta")
        /\ calls = 0

\* C2: when generate_content or the reading of response.text raises, the call
\* still returns an object with an error key and _meta, and nothing is raised.
C2_ServiceFailureGivesErrorReport ==
    (pc = "done" /\ exc # PyNone) =>
        /\ outcome = "returned"
        /\ raised = PyNone
        /\ HasKey(result, "error")
        /\ HasKey(result, "_meta")

C2_Witness ==
    /\ pc = "done"
    /\ response # NoResponse
    /\ response.blocked
    /\ exc # PyNone
    /\ HasKey(result, "error")
    /\ HasKey(result, "_meta")

\* C3: for every text the service returns, parsing and assembly do not raise:
\* the call returns an object that carries _meta.
C3_EveryReplyGivesReport ==
    (pc = "done" /\ content # PyNone) =>
        /\ outcome = "returned"
        /\ HasKey(result, "_meta")

\* C4, as claimed: when the reply is valid JSON, every field of the JSON value
\* is in the report returned with its value, and assembly adds only _meta
\* (stated of the reports that are returned; whether one is returned is C3).
C4_ValidJsonKeepsEveryField ==
    (pc = "done" /\ ReplyIsJson /\ outcome = "returned") =>
        /\ DOMAIN result.v = DOMAIN ReplyValue.v \cup {"_meta"}
        /\ \A k \in DOMAIN ReplyValue.v : result.v[k] = ReplyValue.v[k]

\* C4, amended: when the reply is valid JSON the parsed result is that JSON
\* value and the recovery does not run; when the value is an object, the
\* report returned has its fields other than _meta with their values, _meta
\* is the metadata of this call (a _meta of the reply is replaced) and no
\* other field is added; when the value is not an object nothing is returned.
C4_ValidJsonObjectKeepsFieldsButMeta ==
    (pc \in {"assemble", "done"} /\ ReplyIsJson) =>
        /\ json_match = Unset
        /\ pc = "assemble" => data = ReplyValue
        /\ (pc = "assemble"
               /\ content.v = <<"{", "\"a\"", ":", "1", ",", "\"_meta\"", ":", "1", "}">>)
             => data = PyDict(("a" :> PyInt(1)) @@ ("_meta" :> PyInt(1)))
        /\ (pc = "done" /\ IsDict(ReplyValue)) =>
              /\ outcome = "returned"
              /\ DOMAIN result.v = DOMAIN ReplyValue.v \cup {"_meta"}
              /\ \A k \in DOMAIN ReplyValue.v \ {"_meta"} : result.v[k] = ReplyValue.v[k]
              /\ \E now \in Clock :
                    result.v["_meta"] = MetaBlock(now, base_inputs, predictions, confidences)
        /\ (pc = "done" /\ ~IsDict(ReplyValue)) => outcome = "raised"

C4_Witness ==
    /\ pc = "done"
    /\ outcome = "returned"
    /\ content = PyStr(<<"{", "\"a\"", ":", "1", ",", "\"_meta\"", ":", "1", "}">>)
    /\ result.v["a"] = PyInt(1)
    /\ result.v["_meta"] # PyInt(1)

\* C5: the {...} substring is looked for only when the direct parse of the
\* text failed; it runs from the first "{" of the text to its last "}", line
\* breaks included; when it parses as JSON, the parsed result is that object
\* ("Here is the result: {"a":1} done" gives {"a": 1}).
C5_BracedSubstringRecovery ==
    /\ json_match # Unset => (content # PyNone /\ ~JsonLoads(content.v).ok)
    /\ json_match = PyNone => ~HasBraced(content.v)
    /\ json_match.t = "match" =>
          /\ IsBracedSpan(content.v, json_match.span[1], json_match.span[2])
          /\ (pc = "assemble" /\ JsonLoads(Braced(content.v)).ok) =>
                /\ data = JsonLoads(Braced(content.v)).val
                /\ IsDict(data)
    /\ (pc = "assemble" /\ content = PyStr(ResultExample)) =>
          data = PyDict("a" :> PyInt(1))

C5_Witness ==
    /\ pc = "assemble"
    /\ content = PyStr(ResultExample)
    /\ json_match = Match(<<2, 6>>)
    /\ data = PyDict("a" :> PyInt(1))

\* C6: when the direct parse fails and the text has no {...} substring, or
\* that substring does not parse, the parsed result is {raw: the whole text}
\* and nothing else ("not json at all" gives {"raw": "not json at all"}).
C6_RawFallbackWrapsWholeText ==
    /\ (pc = "assemble" /\ content # PyNone /\ ~JsonLoads(content.v).ok
           /\ (~HasBraced(content.v) \/ ~JsonLoads(Braced(content.v)).ok))
         => /\ data = PyDict("raw" :> PyStr(content.v))
            /\ DOMAIN data.v = {"raw"}
    /\ (pc = "assemble" /\ content = PyStr(<<"not json at all">>))
         => data = PyDict("raw" :> PyStr(<<"not json at all">>))

C6_Witness ==
    /\ pc = "assemble"
    /\ content = PyStr(<<"Here is the result: ", "{", "}", "}">>)
    /\ json_match = Match(<<2, 4>>)
    /\ data = PyDict("raw" :> PyStr(<<"Here is the result: ", "{", "}", "}">>))

\* C7: in every report returned, _meta.inputs, _meta.predictions and
\* _meta.confidences are the arguments of the call, and the call leaves its
\* arguments as they were passed.
C7_MetaEchoesArguments ==
    [][ /\ pc # "idle" => Args' = Args
        /\ outcome' = "returned" =>
              /\ HasKey(result', "_meta")
              /\ result'.v["_meta"].v["inputs"] = base_inputs
              /\ result'.v["_meta"].v["predictions"] = predictions
              /\ result'.v["_meta"].v["confidences"] = confidences ]_vars

C7_Witness ==
    /\ pc = "done"
    /\ outcome = "returned"
    /\ HasKey(result, "raw")
    /\ base_inputs # PyDict(EmptyDict)
    /\ confidences # PyDict(EmptyDict)
    /\ result.v["_meta"].v["inputs"] = base_inputs
    /\ result.v["_meta"].v["confidences"] = confidences

\* C8: normalize_name returns None for None, for the empty string and for a
\* string of white space only.
C8_BlankNameGivesNone ==
    (canon # Unset /\ (IF name = PyNone THEN TRUE ELSE Strip(name.v) = <<>>)) =>
        canon = PyNone

\* c and d are the same letter in either case, or the same character
SameLetter(c, d) ==
    \/ c = d
    \/ \E i \in 1..Len(UPPERCASE) : {c, d} = {UPPERCASE[i], LOWERCASE[i]}

\* s is k with the case of letters changed, between white space
IsVariantOf(s, k) ==
    /\ Len(s) >= Len(k)
    /\ \E a \in 0..(Len(s) - Len(k)) :
          /\ \A i \in 1..a : s[i] \in StripChars
          /\ \A i \in 1..Len(k) : SameLetter(s[a + i], k[i])
          /\ \A i \in (a + Len(k) + 1)..Len(s) : s[i] \in StripChars

\* C9: for every key k of the alias table and every variant of k in letter
\* case and surrounding white space, normalize_name gives the canonical value
\* of k; and normalize_name of a canonical value it gave is that value.
C9_AliasVariantsAndIdempotence ==
    canon # Unset =>
        /\ \A k \in AliasKeys :
              (name # PyNone /\ IsVariantOf(name.v, k)) => canon = PyStr(FERT_ALIAS[k])
        /\ name = PyStr(<<" ", "M", "O", "P", " ">>) => canon = PyStr(<<"M", "O", "P">>)
        /\ (canon # PyNone /\ canon.v # <<>>) => normalize_name(canon) = canon

C9_Witness ==
    /\ name = PyStr(<<" ", "M", "O", "P", " ">>)
    /\ canon = PyStr(<<"M", "O", "P">>)
    /\ normalize_name(canon) = canon

\* C10: a call of generate_recommendation_report calls the service at most
\* once: a failed call is not repeated and ends in the error report, and a
\* reply that does not parse is not asked for again.
C10_AtMostOneServiceCall ==
    /\ calls <= 1
    /\ pc \in {"text", "loads", "extract", "except"} => calls = 1
    /\ (pc = "done" /\ exc # PyNone) => (calls = 1 /\ HasKey(result, "error"))
    /\ (pc = "done" /\ json_match # Unset) => calls = 1

C10_Witness ==
    /\ pc = "done"
    /\ exc = PyStr(<<"503 service unavailable">>)
    /\ response = NoResponse
    /\ calls = 1
    /\ HasKey(result, "error")
====
